---- MODULE Spec2Model ----
(***************************************************************************)
(* A model of the ndarray class template of src/ndarray.hpp: the shape /   *)
(* stride arithmetic, the ownership of the backing buffer through          *)
(* construction, copy, move, assignment, swap and destruction, and the ND  *)
(* enumerating iterator.                                                   *)
(*                                                                         *)
(* Indices are 0-based as in the source: an index_type (std::array<int,N>) *)
(* is a function on 0..N-1 and a buffer of n elements a function on        *)
(* 0..n-1.                                                                 *)
(***************************************************************************)
EXTENDS Integers, Sequences, FiniteSets, TLC

\* ------------------------------------------------------------------ bounds
\* Largest rank (template parameter N) the exhaustive shapes are drawn for.
MaxRank == 2
\* Largest extent of one axis in the exhaustive shapes.
MaxExtent == 2
\* Largest element value; the element type T is modelled as 0..MaxVal.
MaxVal == 1
\* Largest number of elements of an array in the lifecycle model.
MaxSize == 2
\* Largest number of elements of an array in the iteration model.
IterMaxSize == 6

\* ------------------------------------------------------------------- state
VARIABLES
  NDIMS,    \* the rank N the class template is instantiated with
  arrs,     \* array object -> [_shape, _size, _data]
  live,     \* the array objects whose lifetime has begun and not ended
  heap,     \* buffer id -> [alloc, cells]: the free store of T[] buffers
  dfree,    \* TRUE once delete[] was applied to a buffer that is not allocated
  last,     \* the operation that produced this state (history)
  origin,   \* copy -> the object it was copied from, while only written since
  it,       \* the ND (enumerating) iterator of the running loop: [_arr, _pos]
  pc,       \* position of the client program
  call      \* the pure member function last applied, with argument and result

vars == <<NDIMS, arrs, live, heap, dfree, last, origin, it, pc, call>>

\* The value set of the element type T.
Values == 0..MaxVal

\* A null unique_ptr<T[]>.
NULL == 0

\* ------------------------------------------------- index_type and helpers
\* The test helper mk_idx: the std::array<int,n> holding the given ints.
mk_idx(s) == [d \in 0..(Len(s) - 1) |-> s[d + 1]]

\* The rank of an index_type value.
Rank(idx) == Cardinality(DOMAIN idx)

\* index_type _shape = {}: value-initialised to zero on every axis.
ZeroShape(n) == [d \in 0..(n - 1) |-> 0]

\* stride(i) without the shift to the next axis: multiplies by _shape[i].
RECURSIVE stride_unshifted(_, _)
stride_unshifted(_shape, i) ==
  IF i = Rank(_shape) - 1 THEN 1 ELSE stride_unshifted(_shape, i + 1) * _shape[i]

\* int stride(int i) const
RECURSIVE stride(_, _)
stride(_shape, i) ==
  IF i = Rank(_shape) - 1 THEN 1 ELSE stride(_shape, i + 1) * _shape[i + 1]

\* index_type strides() const: the loop d = 0..NDIMS-1 filling ans[d].
RECURSIVE strides_loop(_, _, _)
strides_loop(_shape, d, ans) ==
  IF d < Rank(_shape)
    THEN strides_loop(_shape, d + 1, [ans EXCEPT ![d] = stride(_shape, d)])
    ELSE ans

strides(_shape) == strides_loop(_shape, 0, ZeroShape(Rank(_shape)))

\* n2one whose loop multiplies by the extent _shape[d] instead of stride(d).
RECURSIVE n2one_loop_extent(_, _, _, _)
n2one_loop_extent(_shape, idx, d, flat) ==
  IF d < Rank(_shape)
    THEN n2one_loop_extent(_shape, idx, d + 1, flat + idx[d] * _shape[d])
    ELSE flat

\* int n2one(const index_type& idx) const: the loop accumulating flat.
RECURSIVE n2one_loop(_, _, _, _)
n2one_loop(_shape, idx, d, flat) ==
  IF d < Rank(_shape)
    THEN n2one_loop(_shape, idx, d + 1, flat + idx[d] * stride(_shape, d))
    ELSE flat

n2one(_shape, idx) == n2one_loop(_shape, idx, 0, 0)

\* one2n whose loop omits `ijk %= stride(i)`.
RECURSIVE one2n_loop_nomod(_, _, _, _)
one2n_loop_nomod(_shape, ijk, i, ans) ==
  IF i < Rank(_shape)
    THEN one2n_loop_nomod(_shape, ijk, i + 1,
                          [ans EXCEPT ![i] = ijk \div stride(_shape, i)])
    ELSE ans

\* index_type one2n(int ijk) const: the loop dividing by each stride in turn.
\* ijk >= 0 and stride(i) > 0 wherever the loop runs here, so C++'s truncating
\* / and % agree with \div and %.
RECURSIVE one2n_loop(_, _, _, _)
one2n_loop(_shape, ijk, i, ans) ==
  IF i < Rank(_shape)
    THEN one2n_loop(_shape, ijk % stride(_shape, i), i + 1,
                    [ans EXCEPT ![i] = ijk \div stride(_shape, i)])
    ELSE ans

one2n(_shape, ijk) == one2n_loop(_shape, ijk, 0, ZeroShape(Rank(_shape)))

\* std::accumulate(shape.begin(), shape.end(), 1, std::multiplies<int>())
RECURSIVE accumulate(_, _, _)
accumulate(shape, d, acc) ==
  IF d < Rank(shape) THEN accumulate(shape, d + 1, acc * shape[d]) ELSE acc

\* Product of the extents shape[lo..hi], written without the code's recursion.
RECURSIVE ProdRange(_, _, _)
ProdRange(shape, lo, hi) ==
  IF lo > hi THEN 1 ELSE shape[lo] * ProdRange(shape, lo + 1, hi)

\* The coordinates idx with 0 <= idx[d] < shape[d] on every axis.
LargestExtent(shape) ==
  CHOOSE m \in {shape[d] : d \in DOMAIN shape} : \A d \in DOMAIN shape : shape[d] <= m

ValidCoords(shape) ==
  {idx \in [DOMAIN shape -> 0..LargestExtent(shape)] :
     \A d \in DOMAIN shape : idx[d] < shape[d]}

\* Every shape of rank n with extents 0..MaxExtent.
Shapes(n) == [0..(n - 1) -> 0..MaxExtent]

\* The shapes the tests construct (test_ndarray.cpp).
TestShapes ==
  {mk_idx(<<10>>), mk_idx(<<3>>), mk_idx(<<5, 10>>), mk_idx(<<2, 3>>),
   mk_idx(<<2, 3, 4, 5, 6>>)}

\* ------------------------------------------- the state outside a model's use
NoArray(n) == [_shape |-> ZeroShape(n), _size |-> 0, _data |-> NULL]
NoCall == [fn |-> "none", shape |-> ZeroShape(1), axis |-> 0, flat |-> 0,
           idx |-> ZeroShape(1)]
NoOp == [op |-> "none", dst |-> 0, src |-> 0, val |-> 0]
NoIter == [cur |-> [_arr |-> 0, _pos |-> 0], end |-> [_arr |-> 0, _pos |-> 0]]

\* ================================================== storage and lifecycle
\* The named array objects of the client program, and the one unnamed object
\* an expression creates: the by-value parameter `src` of operator= or the
\* value clone() returns.
X == 1
Y == 2
Objects == {X, Y}
TEMP == 0
\* At most one buffer per object is allocated at a time.
BufIds == 1..(Cardinality(Objects) + 1)

\* A T[0]: a buffer with no element.
NoCells == [i \in {} |-> 0]

\* The memory the operations act on, as one value.
Mem == [arrs |-> arrs, live |-> live, heap |-> heap, dfree |-> dfree]

\* The buffer `new T[n]` returns: a free one (the lowest, as buffers are
\* interchangeable).
FreeBufs(M) == {b \in BufIds : ~M.heap[b].alloc}
NewBuf(M) == CHOOSE b \in FreeBufs(M) : \A c \in FreeBufs(M) : b <= c

\* new T[n]: allocates buffer b; T is trivial, so its elements hold whatever
\* the memory held (cells).
operator_new(M, b, cells) ==
  [M EXCEPT !.heap[b] = [alloc |-> TRUE, cells |-> cells]]

\* A unique_ptr destructor that releases the pointer without delete[].
unique_ptr_dtor_leak(M, p) == M

\* ~unique_ptr<T[]>: delete[] p unless p is null.  Deleting a buffer that is
\* not allocated is recorded in dfree.
unique_ptr_dtor(M, p) ==
  IF p = NULL THEN M
  ELSE IF M.heap[p].alloc
    THEN [M EXCEPT !.heap[p] = [alloc |-> FALSE, cells |-> NoCells]]
    ELSE [M EXCEPT !.dfree = TRUE]

\* ndarray() = default, with the member initialisers _shape = {}, _size = 0
\* and a null _data.
ndarray_default(M, a) ==
  [M EXCEPT !.arrs[a] = NoArray(NDIMS), !.live = @ \cup {a}]

\* ndarray(const index_type& shape)
ndarray_shape(M, a, shape, cells) ==
  LET b == NewBuf(M)
      M1 == operator_new(M, b, cells)
  IN [M1 EXCEPT !.arrs[a] = [_shape |-> shape,
                             _size |-> accumulate(shape, 0, 1),
                             _data |-> b],
                !.live = @ \cup {a}]

\* std::fill that stops one element short: fill(first, first + n - 1, val).
std_fill_short(M, p, n, val) ==
  [M EXCEPT !.heap[p].cells = [i \in DOMAIN @ |-> IF i < n - 1 THEN val ELSE @[i]]]

\* std::fill(first, first + n, val) on buffer p
std_fill(M, p, n, val) ==
  [M EXCEPT !.heap[p].cells = [i \in DOMAIN @ |-> IF i < n THEN val ELSE @[i]]]

\* ndarray(const index_type& shape, const T& val)
ndarray_fill(M, a, shape, cells, val) ==
  LET M1 == ndarray_shape(M, a, shape, cells)
  IN std_fill(M1, M1.arrs[a]._data, M1.arrs[a]._size, val)

\* swap that forgets swap(a._size, b._size).
swap_nosize(M, a, b) ==
  LET M1 == [M EXCEPT !.arrs[a]._shape = M.arrs[b]._shape,
                      !.arrs[b]._shape = M.arrs[a]._shape]
  IN [M1 EXCEPT !.arrs[a]._data = M1.arrs[b]._data,
                !.arrs[b]._data = M1.arrs[a]._data]

\* friend void swap(ndarray& a, ndarray& b) noexcept: the three member swaps.
swap(M, a, b) ==
  LET M1 == [M EXCEPT !.arrs[a]._shape = M.arrs[b]._shape,
                      !.arrs[b]._shape = M.arrs[a]._shape]
      M2 == [M1 EXCEPT !.arrs[a]._size = M1.arrs[b]._size,
                       !.arrs[b]._size = M1.arrs[a]._size]
  IN [M2 EXCEPT !.arrs[a]._data = M2.arrs[b]._data,
                !.arrs[b]._data = M2.arrs[a]._data]

\* A move constructor that takes the source's members and leaves the source
\* as it was.
ndarray_move_noreset(M, a, source) ==
  [M EXCEPT !.arrs[a] = M.arrs[source], !.live = @ \cup {a}]

\* ndarray(ndarray&& source) noexcept : ndarray() { swap(*this, source); }
ndarray_move(M, a, source) == swap(ndarray_default(M, a), a, source)

\* A copy constructor that allocates new T[src._size] whether or not src has
\* storage.
ndarray_copy_alwaysalloc(M, a, src) ==
  LET s == M.arrs[src]
      b == NewBuf(M)
      M1 == operator_new(M, b, [i \in 0..(s._size - 1) |->
                                  M.heap[s._data].cells[i]])
  IN [M1 EXCEPT !.arrs[a] = [_shape |-> s._shape, _size |-> s._size, _data |-> b],
                !.live = @ \cup {a}]

\* A copy constructor that copies the pointer instead of the elements.
ndarray_copy_shallow(M, a, src) ==
  [M EXCEPT !.arrs[a] = M.arrs[src], !.live = @ \cup {a}]

\* ndarray(const ndarray& src): a buffer of src._size elements when src has
\* one, then std::copy of [0, src._size) into it.
ndarray_copy(M, a, src) ==
  LET s == M.arrs[src]
      b == IF s._data # NULL THEN NewBuf(M) ELSE NULL
      M1 == IF s._data # NULL
              THEN operator_new(M, b, [i \in 0..(s._size - 1) |->
                                         M.heap[s._data].cells[i]])
              ELSE M
  IN [M1 EXCEPT !.arrs[a] = [_shape |-> s._shape, _size |-> s._size, _data |-> b],
                !.live = @ \cup {a}]

\* ~ndarray(): implicit; destroys _data.
ndarray_dtor(M, a) ==
  [unique_ptr_dtor(M, M.arrs[a]._data) EXCEPT !.arrs[a] = NoArray(NDIMS),
                                              !.live = @ \ {a}]

\* operator= that returns *this without the swap.
operator_assign_noswap(M, a, src) == M

\* ndarray& operator=(ndarray src) { swap(*this, src); return *this; }
\* src is the object TEMP, which the caller has initialised and destroys at
\* the end of the full expression.
operator_assign(M, a, src) == swap(M, a, src)

\* T& operator()(const index_type& ind): the slot _data[n2one(ind)]
ElemSlot(M, a, ind) == n2one(M.arrs[a]._shape, ind)

\* a(ind) = v
ElemWrite(M, a, ind, v) ==
  [M EXCEPT !.heap[M.arrs[a]._data].cells[ElemSlot(M, a, ind)] = v]

\* a(ind) read; a slot outside the buffer reads as -1 (no element is negative)
ElemRead(M, a, ind) ==
  LET p == M.arrs[a]._data
      k == ElemSlot(M, a, ind)
  IN IF p # NULL /\ k \in DOMAIN M.heap[p].cells THEN M.heap[p].cells[k] ELSE -1

\* The elements of a in storage order; no storage reads as no element.
Cells(M, a) ==
  IF M.arrs[a]._data = NULL THEN NoCells ELSE M.heap[M.arrs[a]._data].cells

\* The shapes the lifecycle model constructs arrays with.
LifeShapes == {s \in Shapes(NDIMS) : accumulate(s, 0, 1) <= MaxSize}

\* The contents new T[n] may leave in the buffer: any, for a buffer of up to
\* IterMaxSize elements; a longer buffer is drawn from the contents that
\* repeat with period IterMaxSize.
Uninit(n) ==
  IF n <= IterMaxSize
    THEN [0..(n - 1) -> Values]
    ELSE {[i \in 0..(n - 1) |-> g[i % IterMaxSize]] :
            g \in [0..(IterMaxSize - 1) -> Values]}

\* origin with every pair that involves an object of S forgotten.
Forget(o, S) == [c \in DOMAIN o |-> IF c \in S \/ o[c] \in S THEN 0 ELSE o[c]]

Commit(M) ==
  /\ arrs' = M.arrs
  /\ live' = M.live
  /\ heap' = M.heap
  /\ dfree' = M.dfree

\* The history variable names the operation a claim is about with its
\* operands; the operations no claim singles out are recorded as "Other".
Did(op, dst, src, val) ==
  last' = [op |-> op, dst |-> dst, src |-> src, val |-> val]

\* vec a;
DefaultConstruct(a) ==
  /\ a \notin live
  /\ Commit(ndarray_default(Mem, a))
  /\ Did("Other", 0, 0, 0)
  /\ origin' = Forget(origin, {a})

\* vec a{shape}; for a given shape
ShapeConstructOf(a, shape) ==
  /\ a \notin live
  /\ \E cells \in Uninit(accumulate(shape, 0, 1)) :
       Commit(ndarray_shape(Mem, a, shape, cells))
  /\ Did("Other", 0, 0, 0)
  /\ origin' = Forget(origin, {a})

\* vec a{shape};
ShapeConstruct(a) == \E shape \in LifeShapes : ShapeConstructOf(a, shape)

\* a = vec{shape};  the temporary is the parameter src of operator= (or src
\* is move-constructed from it, which leaves the same state).
AssignTemporary(a, shape) ==
  /\ a \in live
  /\ \E cells \in Uninit(accumulate(shape, 0, 1)) :
       Commit(ndarray_dtor(operator_assign(ndarray_shape(Mem, TEMP, shape, cells),
                                           a, TEMP), TEMP))
  /\ Did("AssignTemporary", a, 0, 0)
  /\ origin' = Forget(origin, {a})

\* vec a{shape, val};
FillConstruct(a) ==
  /\ a \notin live
  /\ \E shape \in LifeShapes : \E cells \in Uninit(accumulate(shape, 0, 1)) :
       \E val \in Values :
         /\ Commit(ndarray_fill(Mem, a, shape, cells, val))
         /\ Did("FillConstruct", a, 0, val)
  /\ origin' = Forget(origin, {a})

\* vec a{s};
CopyConstruct(a, s) ==
  /\ a \notin live /\ s \in live
  /\ Commit(ndarray_copy(Mem, a, s))
  /\ Did("CopyConstruct", a, s, 0)
  /\ origin' = [Forget(origin, {a}) EXCEPT ![a] = s]

\* vec a{s.clone()};  clone() returns ndarray{*this}: the copy is made in
\* the returned object, from which a is move-constructed (or which is a
\* itself when the move is elided: the same state).
Clone(a, s) ==
  /\ a \notin live /\ s \in live
  /\ Commit(ndarray_dtor(ndarray_move(ndarray_copy(Mem, TEMP, s), a, TEMP), TEMP))
  /\ Did("Clone", a, s, 0)
  /\ origin' = [Forget(origin, {a}) EXCEPT ![a] = s]

\* vec a{std::move(s)};
MoveConstruct(a, s) ==
  /\ a \notin live /\ s \in live
  /\ Commit(ndarray_move(Mem, a, s))
  /\ Did("MoveConstruct", a, s, 0)
  /\ origin' = Forget(origin, {a, s})

\* a = s;  (a and s may be the same object)
CopyAssign(a, s) ==
  /\ a \in live /\ s \in live
  /\ Commit(ndarray_dtor(operator_assign(ndarray_copy(Mem, TEMP, s), a, TEMP), TEMP))
  /\ Did("CopyAssign", a, s, 0)
  /\ origin' = IF a = s THEN Forget(origin, {a})
                        ELSE [Forget(origin, {a}) EXCEPT ![a] = s]

\* a = std::move(s);  (a and s may be the same object)
MoveAssign(a, s) ==
  /\ a \in live /\ s \in live
  /\ Commit(ndarray_dtor(operator_assign(ndarray_move(Mem, TEMP, s), a, TEMP), TEMP))
  /\ Did("MoveAssign", a, s, 0)
  /\ origin' = Forget(origin, {a, s})

\* swap(a, b);
Swap(a, b) ==
  /\ a \in live /\ b \in live /\ a < b
  /\ Commit(swap(Mem, a, b))
  /\ Did("Other", 0, 0, 0)
  /\ origin' = Forget(origin, {a, b})

\* the lifetime of a ends
Destroy(a) ==
  /\ a \in live
  /\ Commit(ndarray_dtor(Mem, a))
  /\ Did("Other", 0, 0, 0)
  /\ origin' = Forget(origin, {a})

\* a(ind) = v; for a valid coordinate ind
Write(a) ==
  /\ a \in live
  /\ \E ind \in ValidCoords(arrs[a]._shape) : \E v \in Values :
       /\ Commit(ElemWrite(Mem, a, ind, v))
       /\ Did("Write", a, 0, 0)
  /\ UNCHANGED origin

InitMem ==
  /\ arrs = [a \in {TEMP} \cup Objects |-> NoArray(NDIMS)]
  /\ live = {}
  /\ heap = [b \in BufIds |-> [alloc |-> FALSE, cells |-> NoCells]]
  /\ dfree = FALSE
  /\ last = NoOp
  /\ origin = [a \in Objects |-> 0]

\* The ranks the tests instantiate the template with: vec = ndarray<double, 1>
\* and mat = ndarray<double, 2>.
VecRank == 1
MatRank == 2

\* The client program of the lifecycle model works on mat objects.
Init ==
  /\ NDIMS = MatRank
  /\ InitMem
  /\ it = NoIter
  /\ pc = "life"
  /\ call = NoCall

LifeFrame == UNCHANGED <<NDIMS, it, pc, call>>

Next ==
  \/ \E a \in Objects : DefaultConstruct(a) /\ LifeFrame
  \/ \E a \in Objects : ShapeConstruct(a) /\ LifeFrame
  \/ \E a \in Objects : FillConstruct(a) /\ LifeFrame
  \/ \E a, s \in Objects : CopyConstruct(a, s) /\ LifeFrame
  \/ \E a, s \in Objects : Clone(a, s) /\ LifeFrame
  \/ \E a, s \in Objects : MoveConstruct(a, s) /\ LifeFrame
  \/ \E a, s \in Objects : CopyAssign(a, s) /\ LifeFrame
  \/ \E a, s \in Objects : MoveAssign(a, s) /\ LifeFrame
  \/ \E a, b \in Objects : Swap(a, b) /\ LifeFrame
  \/ \E a \in Objects : Destroy(a) /\ LifeFrame
  \/ \E a \in Objects : Write(a) /\ LifeFrame

Spec == Init /\ [][Next]_vars

\* The valid-coordinate elements of object a in memory (A, H).
Elems(A, H, a) ==
  [ind \in ValidCoords(A[a]._shape) |->
     ElemRead([arrs |-> A, heap |-> H], a, ind)]

\* The storage of object a in memory (A, H), slot by slot.
Stored(A, H, a) == Cells([arrs |-> A, heap |-> H], a)

\* The empty-equivalent state: shape all zeros, size 0, no storage.
IsEmpty(A, a) == A[a] = NoArray(NDIMS)

\* C3: size() is the product of shape()[0..N) for every live array, after
\* every construction path and after any sequence of assignments, swaps,
\* clones and element writes.
C3_SizeIsProduct ==
  \A a \in live : arrs[a]._size = ProdRange(arrs[a]._shape, 0, NDIMS - 1)

\* Two arrays of different non-zero sizes were swapped by a move assignment.
C3_Witness ==
  /\ last.op = "MoveAssign" /\ last.dst # last.src
  /\ arrs[last.dst]._shape = mk_idx(<<1, 2>>)
  /\ arrs[last.dst]._size = 2

\* C4: after ndarray(shape, val), element access at every valid coordinate
\* reads val.
C4_FillReadsVal ==
  last.op = "FillConstruct" =>
    \A ind \in ValidCoords(arrs[last.dst]._shape) :
      ElemRead(Mem, last.dst, ind) = last.val

\* A {2,1} array was constructed with fill value 1.
C4_Witness ==
  /\ last.op = "FillConstruct" /\ last.val = 1
  /\ arrs[last.dst]._shape = mk_idx(<<2, 1>>)

\* C5: copy construction and clone() give the new array the shape, the size
\* and, at every flat position, the element the source has at the moment of
\* the copy; they leave the source's shape, size and elements unchanged; the
\* copy has storage exactly when the source has.
C5_CopyEqualsSource ==
  [][last'.op \in {"CopyConstruct", "Clone"} =>
       LET d == last'.dst
           s == last'.src
       IN /\ arrs'[d]._shape = arrs[s]._shape
          /\ arrs'[d]._size = arrs[s]._size
          /\ Stored(arrs', heap', d) = Stored(arrs, heap, s)
          /\ DOMAIN Stored(arrs', heap', d) = 0..(arrs[s]._size - 1)
          /\ (arrs'[d]._data = NULL) <=> (arrs[s]._data = NULL)
          /\ arrs'[s]._shape = arrs[s]._shape
          /\ arrs'[s]._size = arrs[s]._size
          /\ Stored(arrs', heap', s) = Stored(arrs, heap, s)]_vars

\* A {1,2} array holding 0, 1 was cloned.
C5_Witness ==
  /\ last.op = "Clone"
  /\ arrs[last.dst]._shape = mk_idx(<<1, 2>>)
  /\ ElemRead(Mem, last.dst, mk_idx(<<0, 0>>)) = 0
  /\ ElemRead(Mem, last.dst, mk_idx(<<0, 1>>)) = 1

\* C6: while only element writes follow a copy (copy construction, clone()
\* or copy assignment), a write to the copy leaves every element of the
\* source unchanged and a write to the source leaves every element of the
\* copy unchanged.
C6_CopyIndependence ==
  [][last'.op = "Write" =>
       \A c \in Objects : origin[c] # 0 =>
         /\ last'.dst = c =>
              Elems(arrs', heap', origin[c]) = Elems(arrs, heap, origin[c])
         /\ last'.dst = origin[c] =>
              Elems(arrs', heap', c) = Elems(arrs, heap, c)]_vars

\* A copy was written and now differs from the array it was copied from.
C6_Witness ==
  /\ last.op = "Write" /\ origin[last.dst] # 0
  /\ arrs[last.dst]._size = 2
  /\ Elems(arrs, heap, last.dst) # Elems(arrs, heap, origin[last.dst])

\* C7 as stated: after move construction or move assignment from s, s is
\* empty (shape all zeros, size 0, no storage) and the destination has the
\* shape, size and elements s had before the move.
C7_MoveEmptiesSource ==
  [][last'.op \in {"MoveConstruct", "MoveAssign"} =>
       LET d == last'.dst
           s == last'.src
       IN /\ IsEmpty(arrs', s)
          /\ arrs'[d]._shape = arrs[s]._shape
          /\ arrs'[d]._size = arrs[s]._size
          /\ Stored(arrs', heap', d) = Stored(arrs, heap, s)]_vars

\* C7 amended: the destination has the shape, size and elements s had before
\* the move, and s is empty when it is another object than the destination
\* (a self move assignment leaves the array as it was).
C7_MoveTransfers ==
  [][last'.op \in {"MoveConstruct", "MoveAssign"} =>
       LET d == last'.dst
           s == last'.src
       IN /\ d # s => IsEmpty(arrs', s)
          /\ arrs'[d]._shape = arrs[s]._shape
          /\ arrs'[d]._size = arrs[s]._size
          /\ Stored(arrs', heap', d) = Stored(arrs, heap, s)
          /\ (arrs'[d]._data = NULL) <=> (arrs[s]._data = NULL)]_vars

\* A {2,1} array holding 1, 0 was move-assigned to another object.
C7_Witness ==
  /\ last.op = "MoveAssign" /\ last.dst # last.src
  /\ IsEmpty(arrs, last.src)
  /\ arrs[last.dst]._shape = mk_idx(<<2, 1>>)
  /\ ElemRead(Mem, last.dst, mk_idx(<<0, 0>>)) = 1
  /\ ElemRead(Mem, last.dst, mk_idx(<<1, 0>>)) = 0

\* C9: every allocated buffer is owned by exactly one live array (no sharing,
\* no leak), every live array's storage is an allocated buffer (nothing is
\* used after its release), no buffer is released twice, and the temporary
\* of an expression is gone when the expression ends.
C9_ExclusiveOwnership ==
  /\ ~dfree
  /\ TEMP \notin live
  /\ \A b \in BufIds :
       heap[b].alloc => Cardinality({a \in live : arrs[a]._data = b}) = 1
  /\ \A a \in live : arrs[a]._data # NULL => heap[arrs[a]._data].alloc

\* An array with storage was copy-assigned to itself while another array
\* owns a buffer too.
C9_Witness ==
  /\ last.op = "CopyAssign" /\ last.dst = last.src
  /\ live = Objects
  /\ \A a \in Objects : arrs[a]._data # NULL /\ arrs[a]._size = 2

\* ============================================ the test "array can move"
\* test_ndarray.cpp, SECTION("array can move"):
\*   vec x{{5}};  x = vec{{10}};  vec y{std::move(x)};  then y and x leave scope.
FirstExtent == 5
SecondExtent == 10

InitMoveTest ==
  /\ NDIMS = VecRank
  /\ InitMem
  /\ it = NoIter
  /\ pc = "start"
  /\ call = NoCall

MoveTestFrame == UNCHANGED <<NDIMS, it, call>>

\* vec x{{5}};
TestConstruct ==
  /\ pc = "start"
  /\ ShapeConstructOf(X, mk_idx(<<FirstExtent>>))
  /\ pc' = "constructed"
  /\ MoveTestFrame

\* x = vec{{10}};
TestMoveAssign ==
  /\ pc = "constructed"
  /\ AssignTemporary(X, mk_idx(<<SecondExtent>>))
  /\ pc' = "assigned"
  /\ MoveTestFrame

\* vec y{std::move(x)};
TestMoveConstruct ==
  /\ pc = "assigned"
  /\ MoveConstruct(Y, X)
  /\ pc' = "moved"
  /\ MoveTestFrame

\* end of the section: y is destroyed
TestDestroyY ==
  /\ pc = "moved"
  /\ Destroy(Y)
  /\ pc' = "y_gone"
  /\ MoveTestFrame

\* end of the section: then x is destroyed
TestDestroyX ==
  /\ pc = "y_gone"
  /\ Destroy(X)
  /\ pc' = "done"
  /\ MoveTestFrame

NextMoveTest ==
  \/ TestConstruct
  \/ TestMoveAssign
  \/ TestMoveConstruct
  \/ TestDestroyY
  \/ TestDestroyX

SpecMoveTest == InitMoveTest /\ [][NextMoveTest]_vars

\* C8 as stated: after the {10} array is move-assigned into the {5} array
\* and the third array is move-constructed from it, the third array's size is
\* 5, and no buffer is freed twice.
C8_FinalSizeFive ==
  /\ pc = "moved" => arrs[Y]._size = FirstExtent
  /\ ~dfree

\* C8 amended: the third array's size is 10 (the moved-in array's), the
\* moved-from array is empty, and no buffer is freed twice: when both arrays
\* are destroyed every buffer has been released exactly once.
C8_FinalSizeTen ==
  /\ pc = "assigned" => arrs[X]._size = SecondExtent
  /\ pc = "moved" =>
       /\ arrs[Y]._size = SecondExtent
       /\ arrs[Y]._shape = mk_idx(<<SecondExtent>>)
       /\ arrs[X]._size = 0
       /\ Cardinality({b \in BufIds : heap[b].alloc}) = 1
  /\ pc = "done" => \A b \in BufIds : ~heap[b].alloc
  /\ ~dfree

\* The third array was move-constructed from the assigned-to array: it has
\* ten elements and the assigned-to array is empty.
C8_Witness ==
  /\ pc = "moved"
  /\ last.op = "MoveConstruct" /\ last.dst = Y /\ last.src = X
  /\ arrs[Y]._size = SecondExtent
  /\ IsEmpty(arrs, X)

\* ===================================================== the ND enumerator
\* test_ndarray.cpp, TEST_CASE("ND enumerator"):
\*   auto x = mat{{M, N}};
\*   for (auto it = e.begin(), end = e.end(); it != end; ++it) {
\*     auto p = *it;  p.second = p.first[0] + p.first[1]; }
\* for every rank up to MaxRank and every shape of up to IterMaxSize elements.
IterShapes ==
  {s \in Shapes(NDIMS) \cup {t \in TestShapes : Rank(t) = NDIMS} :
     accumulate(s, 0, 1) <= IterMaxSize}

\* coordinate[0] + coordinate[1] + ...
RECURSIVE SumFrom(_, _)
SumFrom(idx, d) == IF d \in DOMAIN idx THEN idx[d] + SumFrom(idx, d + 1) ELSE 0

\* nd_iter_impl(array_type* arr, int pos)
nd_iter_impl(arr, pos) == [_arr |-> arr, _pos |-> pos]

\* nd_iterator nd_begin() { return nd_iterator(this, 0); }
nd_begin(M, a) == nd_iter_impl(a, 0)

\* nd_iterator nd_end() { return nd_iterator(this, _size); }
nd_end(M, a) == nd_iter_impl(a, M.arrs[a]._size)

\* operator== that compares the arrays only.
nd_iter_eq_arr_only(a, b) == a._arr = b._arr

\* operator==(const nd_iter_impl& a, const nd_iter_impl& b), to which
\* nd_enum_iter's operator== delegates
nd_iter_eq(a, b) == (a._arr = b._arr) /\ (a._pos = b._pos)

\* nd_iter_impl::index(): _arr->one2n(_pos)
nd_iter_index(M, i) == one2n(M.arrs[i._arr]._shape, i._pos)

\* nd_iter_impl::operator*(): the slot _pos of _arr->_data
nd_iter_deref(M, i) == [buf |-> M.arrs[i._arr]._data, slot |-> i._pos]

\* nd_iter_impl::operator++()
nd_iter_inc(i) == [i EXCEPT !._pos = @ + 1]

\* nd_enum_iter::operator*(): the pair {_it.index(), *_it}
nd_enum_deref(M, i) == [first |-> nd_iter_index(M, i), second |-> nd_iter_deref(M, i)]

InitEnum ==
  /\ NDIMS \in 1..MaxRank
  /\ InitMem
  /\ it = NoIter
  /\ pc = "start"
  /\ call = NoCall

\* auto x = mat{shape};
EnumConstruct ==
  /\ pc = "start"
  /\ \E shape \in IterShapes : ShapeConstructOf(X, shape)
  /\ pc' = "constructed"
  /\ UNCHANGED <<NDIMS, it, call>>

\* enumerator e{&x}; auto it = e.begin(); auto end = e.end();
EnumBegin ==
  /\ pc = "constructed"
  /\ it' = [cur |-> nd_begin(Mem, X), end |-> nd_end(Mem, X)]
  /\ pc' = "loop"
  /\ Did("EnumBegin", X, 0, 0)
  /\ UNCHANGED <<NDIMS, arrs, live, heap, dfree, origin, call>>

\* it != end:  p = *it;  p.second = sum of p.first;  ++it
\* last.val counts the pairs yielded; call holds the pair's coordinate.
EnumStep ==
  /\ pc = "loop"
  /\ ~nd_iter_eq(it.cur, it.end)
  /\ LET p == nd_enum_deref(Mem, it.cur)
     IN /\ heap' = [heap EXCEPT ![p.second.buf].cells[p.second.slot] =
                                  SumFrom(p.first, 0)]
        /\ call' = [fn |-> "index", shape |-> arrs[it.cur._arr]._shape,
                    axis |-> 0, flat |-> it.cur._pos, idx |-> p.first]
        /\ Did("EnumWrite", it.cur._arr, 0, last.val + 1)
  /\ it' = [it EXCEPT !.cur = nd_iter_inc(@)]
  /\ UNCHANGED <<NDIMS, arrs, live, dfree, origin, pc>>

\* it == end: the loop is left
EnumExit ==
  /\ pc = "loop"
  /\ nd_iter_eq(it.cur, it.end)
  /\ pc' = "done"
  /\ Did("EnumEnd", X, 0, last.val)
  /\ UNCHANGED <<NDIMS, arrs, live, heap, dfree, origin, it, call>>

NextEnum == EnumConstruct \/ EnumBegin \/ EnumStep \/ EnumExit

SpecEnum == InitEnum /\ [][NextEnum]_vars

\* C10: the enumeration yields exactly size() pairs; the k-th pair (k from
\* 0) holds the coordinate of flat position k, a valid coordinate, and a
\* reference to the element at that coordinate, so the sum written through
\* it is what element access reads there; when the loop is left a(c) is the
\* sum of c's components for every valid coordinate c.
C10_Enumerate ==
  /\ last.op = "EnumWrite" =>
       /\ call.flat = last.val - 1
       /\ call.idx \in ValidCoords(arrs[X]._shape)
       /\ n2one(arrs[X]._shape, call.idx) = call.flat
       /\ ElemRead(Mem, X, call.idx) = SumFrom(call.idx, 0)
       /\ last.val <= arrs[X]._size
  /\ pc = "done" =>
       /\ last.val = arrs[X]._size
       /\ \A c \in ValidCoords(arrs[X]._shape) :
            ElemRead(Mem, X, c) = SumFrom(c, 0)

\* The {2,3} array of the test was enumerated to the end: six pairs, and
\* x(1,2) reads 3.
C10_Witness ==
  /\ pc = "done"
  /\ arrs[X]._shape = mk_idx(<<2, 3>>)
  /\ last.val = 6
  /\ ElemRead(Mem, X, mk_idx(<<1, 2>>)) = 3

\* ===================================================== the index mapping
\* The pure members stride, strides, n2one and one2n applied to an array of a
\* given shape; call.shape is the array's _shape.
InitIndex ==
  /\ \E n \in 1..MaxRank : \E s \in Shapes(n) \cup TestShapes :
        /\ NDIMS = Rank(s)
        /\ call = [NoCall EXCEPT !.shape = s, !.idx = ZeroShape(Rank(s))]
  /\ InitMem
  /\ it = NoIter
  /\ pc = "index"

\* One member function is applied per behaviour: the functions are pure, so a
\* second call sees what the first saw.
NotCalled == call.fn = "none"

IndexFrame ==
  UNCHANGED <<NDIMS, arrs, live, heap, dfree, last, origin, it, pc>>

\* x.stride(i) for an axis i of the array
CallStride ==
  /\ NotCalled
  /\ \E i \in 0..(NDIMS - 1) :
        call' = [call EXCEPT !.fn = "stride", !.axis = i,
                             !.flat = stride(call.shape, i),
                             !.idx = ZeroShape(NDIMS)]
  /\ IndexFrame

\* x.strides()
CallStrides ==
  /\ NotCalled
  /\ call' = [call EXCEPT !.fn = "strides", !.axis = 0, !.flat = 0,
                          !.idx = strides(call.shape)]
  /\ IndexFrame

\* n2one(idx) for a valid coordinate idx, as operator() calls it
CallN2One ==
  /\ NotCalled
  /\ \E idx \in ValidCoords(call.shape) :
        call' = [call EXCEPT !.fn = "n2one", !.axis = 0, !.idx = idx,
                             !.flat = n2one(call.shape, idx)]
  /\ IndexFrame

\* one2n(ijk) for a flat index in [0, size), as nd_iter_impl::index calls it
CallOne2N ==
  /\ NotCalled
  /\ \E ijk \in 0..(accumulate(call.shape, 0, 1) - 1) :
        call' = [call EXCEPT !.fn = "one2n", !.axis = 0, !.flat = ijk,
                             !.idx = one2n(call.shape, ijk)]
  /\ IndexFrame

NextIndex == CallStride \/ CallStrides \/ CallN2One \/ CallOne2N

SpecIndex == InitIndex /\ [][NextIndex]_vars

\* C1: on the valid range one2n and n2one are two-sided inverses: the
\* coordinate one2n returns for a flat index f in [0, size) maps back to f
\* under n2one (and is itself a valid coordinate), and the flat index n2one
\* returns for a valid coordinate c maps back to c under one2n.
C1_RoundTrip ==
  /\ call.fn = "one2n" =>
        /\ call.idx \in ValidCoords(call.shape)
        /\ n2one(call.shape, call.idx) = call.flat
  /\ call.fn = "n2one" =>
        /\ call.flat \in 0..(ProdRange(call.shape, 0, NDIMS - 1) - 1)
        /\ one2n(call.shape, call.flat) = call.idx

\* A rank-2 array of shape {2,3}: one2n(4) was applied and returned {1,1}.
C1_Witness ==
  /\ call.shape = mk_idx(<<2, 3>>)
  /\ call.fn = "one2n" /\ call.flat = 4 /\ call.idx = mk_idx(<<1, 1>>)

\* C2: stride(N-1) = 1, stride(d) = stride(d+1) * shape[d+1] for d < N-1
\* (so stride(d) is the product of the extents after axis d), and strides()
\* returns the vector of stride(d); shape {5,10} gives {10,1}, shape
\* {2,3,4,5,6} gives {360,120,30,6,1} and the all-zero rank-2 shape of a
\* default-constructed array gives {0,1}.
C2_Strides ==
  /\ call.fn = "stride" =>
        /\ call.axis = NDIMS - 1 => call.flat = 1
        /\ call.axis < NDIMS - 1 =>
              call.flat = stride(call.shape, call.axis + 1) * call.shape[call.axis + 1]
        /\ call.flat = ProdRange(call.shape, call.axis + 1, NDIMS - 1)
  /\ call.fn = "strides" =>
        /\ DOMAIN call.idx = 0..(NDIMS - 1)
        /\ \A d \in 0..(NDIMS - 1) :
              /\ call.idx[d] = stride(call.shape, d)
              /\ call.idx[d] = ProdRange(call.shape, d + 1, NDIMS - 1)
        /\ call.shape = mk_idx(<<5, 10>>) => call.idx = mk_idx(<<10, 1>>)
        /\ call.shape = mk_idx(<<2, 3, 4, 5, 6>>) =>
              call.idx = mk_idx(<<360, 120, 30, 6, 1>>)
        /\ call.shape = mk_idx(<<0, 0>>) => call.idx = mk_idx(<<0, 1>>)

\* strides() was applied to the rank-5 array of shape {2,3,4,5,6}.
C2_Witness ==
  /\ call.fn = "strides"
  /\ call.shape = mk_idx(<<2, 3, 4, 5, 6>>)
  /\ call.idx[0] = 360

\* ======================================================= ND iterators
\* An iterator obtained from the array's nd_begin()/nd_end() family, or the
\* enumerating iterator nd_enumerate(x).begin()/end() wraps around one, and
\* pre-incremented any number of times.  operator++ has no guard; the model
\* stops MaxOverrun positions after the end.
MaxOverrun == 2

\* const_nd_iterator nd_begin() const / nd_cbegin() const
nd_cbegin(M, a) == nd_iter_impl(a, 0)

\* const_nd_iterator nd_end() const / nd_cend() const
nd_cend(M, a) == nd_iter_impl(a, M.arrs[a]._size)

\* nd_enumerator::begin(): iterator{_arr->nd_begin()}; _it is the wrapped one
nd_enumerator_begin(M, a) == nd_begin(M, a)

\* nd_enumerator::end(): iterator{_arr->nd_end()}
nd_enumerator_end(M, a) == nd_end(M, a)

\* The iterators the array and its enumerator hand out.
Obtainable(M, a) ==
  {nd_begin(M, a), nd_end(M, a), nd_cbegin(M, a), nd_cend(M, a),
   nd_enumerator_begin(M, a), nd_enumerator_end(M, a)}

\* operator++ that advances by two positions.
nd_iter_inc_twice(i) == [i EXCEPT !._pos = @ + 2]

\* nd_iter_impl::operator++(), to which nd_enum_iter::operator++ delegates,
\* as the actions below apply it
pre_increment(i) == nd_iter_inc(i)

InitIter ==
  /\ NDIMS \in 1..MaxRank
  /\ InitMem
  /\ it = NoIter
  /\ pc = "start"
  /\ call = NoCall

\* auto x = mat{shape};
IterConstruct ==
  /\ pc = "start"
  /\ \E shape \in IterShapes : ShapeConstructOf(X, shape)
  /\ pc' = "constructed"
  /\ UNCHANGED <<NDIMS, it, call>>

\* auto it = x.nd_begin();  (or nd_end, nd_cbegin, nd_cend, e.begin, e.end)
IterObtain ==
  /\ pc = "constructed"
  /\ \E i \in Obtainable(Mem, X) : it' = [cur |-> i, end |-> nd_end(Mem, X)]
  /\ pc' = "iter"
  /\ Did("Obtain", X, 0, 0)
  /\ UNCHANGED <<NDIMS, arrs, live, heap, dfree, origin, call>>

\* ++it;
IterIncrement ==
  /\ pc = "iter"
  /\ it.cur._pos < arrs[it.cur._arr]._size + MaxOverrun
  /\ it' = [it EXCEPT !.cur = pre_increment(@)]
  /\ Did("Increment", X, 0, 0)
  /\ UNCHANGED <<NDIMS, arrs, live, heap, dfree, origin, pc, call>>

NextIter == IterConstruct \/ IterObtain \/ IterIncrement

SpecIter == InitIter /\ [][NextIter]_vars

\* C11 as stated: an iterator obtained from the nd_begin()/nd_end() family
\* and advanced by any number of pre-increments has its flat position in
\* [0, size]: it is valid (position < size) or at end (position = size).
C11_PositionInRange ==
  pc = "iter" =>
    /\ it.cur._pos >= 0
    /\ it.cur._pos <= arrs[it.cur._arr]._size

\* C11 amended: an iterator as obtained is valid or at end, and a
\* pre-increment of a valid iterator leaves it valid or at end; operator++
\* has no guard, so a pre-increment of an end iterator takes the position to
\* size + 1, outside [0, size].
C11_ValidStaysInRange ==
  [][/\ last'.op = "Obtain" =>
          /\ it'.cur._arr = X
          /\ it'.cur._pos \in 0..arrs'[X]._size
     /\ (last'.op = "Increment" /\ it.cur._pos \in 0..(arrs[X]._size - 1)) =>
          it'.cur._pos \in 1..arrs'[X]._size
     /\ (last'.op = "Increment" /\ it.cur._pos = arrs[X]._size) =>
          it'.cur._pos = arrs'[X]._size + 1]_vars

\* An iterator over the {2,3} array was incremented from a valid position to
\* the end.
C11_Witness ==
  /\ pc = "iter" /\ last.op = "Increment"
  /\ arrs[X]._shape = mk_idx(<<2, 3>>)
  /\ it.cur._pos = 6

\* ================================== copy assignment when new T[] fails
\* a = s where the allocation of the copy may throw std::bad_alloc.

\* The copy constructor's allocation throws exactly when it allocates (the
\* source has storage) and the allocation fails.
Throws(M, src, bad_alloc) == bad_alloc /\ M.arrs[src]._data # NULL

\* ndarray(const ndarray& src) whose new T[src._size] throws: _shape and
\* _size of the object under construction are initialised, then the
\* exception leaves the member initialiser list; nothing was allocated and
\* the object never comes to life.
ndarray_copy_throw(M, a, src) == [M EXCEPT !.arrs[a] = NoArray(NDIMS)]

\* A copy assignment that releases the destination's storage before it
\* copies the source.
copy_assign_release_first(M, a, s, bad_alloc) ==
  LET M1 == [unique_ptr_dtor(M, M.arrs[a]._data) EXCEPT !.arrs[a] = NoArray(NDIMS)]
  IN IF a = s THEN M
     ELSE IF Throws(M1, s, bad_alloc) THEN M1
     ELSE [ndarray_copy(M1, a, s) EXCEPT !.live = M.live]

\* The expression a = s: the parameter src of operator= (the object TEMP) is
\* copy-constructed from s first; when that throws, the body of operator= is
\* not entered and the exception propagates; otherwise operator= swaps and
\* src is destroyed at the end of the full expression.
copy_assign(M, a, s, bad_alloc) ==
  IF Throws(M, s, bad_alloc)
    THEN ndarray_copy_throw(M, TEMP, s)
    ELSE ndarray_dtor(operator_assign(ndarray_copy(M, TEMP, s), a, TEMP), TEMP)

\* a = s;  where new T[] may fail
CopyAssignMayThrow(a, s) ==
  /\ a \in live /\ s \in live
  /\ \E bad_alloc \in BOOLEAN :
       /\ Commit(copy_assign(Mem, a, s, bad_alloc))
       /\ Did(IF Throws(Mem, s, bad_alloc) THEN "BadAlloc" ELSE "CopyAssigned",
              a, s, 0)
  /\ origin' = Forget(origin, {a})

NextAssign ==
  \/ \E a \in Objects : DefaultConstruct(a) /\ LifeFrame
  \/ \E a \in Objects : ShapeConstruct(a) /\ LifeFrame
  \/ \E a, s \in Objects : CopyAssignMayThrow(a, s) /\ LifeFrame
  \/ \E a \in Objects : Destroy(a) /\ LifeFrame

SpecAssign == Init /\ [][NextAssign]_vars

\* C12: when the allocation of the copy fails during a = b, the failure is
\* propagated and shape, size and elements of a and of b are what they were
\* (nothing is allocated, released or left without owner); when it does not
\* fail, a gets b's shape, size and elements and b keeps its own.
C12_AssignErrorSafe ==
  [][/\ last'.op = "BadAlloc" =>
          /\ arrs' = arrs /\ live' = live /\ heap' = heap /\ ~dfree'
          /\ \A o \in {last'.dst, last'.src} :
               /\ arrs'[o]._shape = arrs[o]._shape
               /\ arrs'[o]._size = arrs[o]._size
               /\ Stored(arrs', heap', o) = Stored(arrs, heap, o)
     /\ last'.op = "CopyAssigned" =>
          /\ arrs'[last'.dst]._shape = arrs[last'.src]._shape
          /\ arrs'[last'.dst]._size = arrs[last'.src]._size
          /\ Stored(arrs', heap', last'.dst) = Stored(arrs, heap, last'.src)
          /\ Stored(arrs', heap', last'.src) = Stored(arrs, heap, last'.src)
     /\ last'.op \in {"BadAlloc", "CopyAssigned"} =>
          /\ TEMP \notin live'
          /\ \A b \in BufIds :
               heap'[b].alloc =>
                 Cardinality({o \in live' : arrs'[o]._data = b}) = 1]_vars

\* The copy of a {1,2} array failed while it was assigned to a {2,1} array
\* holding 0, 1.
C12_Witness ==
  /\ last.op = "BadAlloc" /\ last.dst # last.src
  /\ arrs[last.src]._shape = mk_idx(<<1, 2>>)
  /\ arrs[last.dst]._shape = mk_idx(<<2, 1>>)
  /\ ElemRead(Mem, last.dst, mk_idx(<<0, 0>>)) = 0
  /\ ElemRead(Mem, last.dst, mk_idx(<<1, 0>>)) = 1

\* ===================================================== the ND iterator loop
\* test_ndarray.cpp, TEST_CASE("ND iterators"):
\*   auto x = mat{{M, N}};
\*   for (mat::nd_iterator it = x.nd_begin(); it != x.nd_end(); ++it) {
\*     auto ind = it.index();  *it = ind[0] + ind[1]; }
\* for every rank up to MaxRank and every shape of up to IterMaxSize elements.
\* last.val counts the pre-increments; call holds what index() returned.

\* mat::nd_iterator it = x.nd_begin();
LoopBegin ==
  /\ pc = "constructed"
  /\ it' = [cur |-> nd_begin(Mem, X), end |-> NoIter.end]
  /\ pc' = "test"
  /\ Did("LoopBegin", X, 0, 0)
  /\ UNCHANGED <<NDIMS, arrs, live, heap, dfree, origin, call>>

\* it != x.nd_end() holds: the body is entered
LoopEnter ==
  /\ pc = "test"
  /\ ~nd_iter_eq(it.cur, nd_end(Mem, X))
  /\ pc' = "index"
  /\ UNCHANGED <<NDIMS, arrs, live, heap, dfree, last, origin, it, call>>

\* it != x.nd_end() fails: the loop is left
LoopExit ==
  /\ pc = "test"
  /\ nd_iter_eq(it.cur, nd_end(Mem, X))
  /\ pc' = "done"
  /\ UNCHANGED <<NDIMS, arrs, live, heap, dfree, last, origin, it, call>>

\* auto ind = it.index();   (index() is const: it is not assigned)
LoopIndex ==
  /\ pc = "index"
  /\ call' = [fn |-> "index", shape |-> arrs[it.cur._arr]._shape, axis |-> 0,
              flat |-> it.cur._pos, idx |-> nd_iter_index(Mem, it.cur)]
  /\ pc' = "write"
  /\ UNCHANGED <<NDIMS, arrs, live, heap, dfree, last, origin, it>>

\* *it = ind[0] + ind[1];
LoopWrite ==
  /\ pc = "write"
  /\ LET r == nd_iter_deref(Mem, it.cur)
     IN heap' = [heap EXCEPT ![r.buf].cells[r.slot] = SumFrom(call.idx, 0)]
  /\ pc' = "inc"
  /\ UNCHANGED <<NDIMS, arrs, live, dfree, last, origin, it, call>>

\* ++it
LoopIncrement ==
  /\ pc = "inc"
  /\ it' = [it EXCEPT !.cur = nd_iter_inc(@)]
  /\ pc' = "test"
  /\ Did("LoopIncrement", X, 0, last.val + 1)
  /\ UNCHANGED <<NDIMS, arrs, live, heap, dfree, origin, call>>

NextNdLoop ==
  \/ IterConstruct
  \/ LoopBegin
  \/ LoopEnter
  \/ LoopExit
  \/ LoopIndex
  \/ LoopWrite
  \/ LoopIncrement

\* The loop is a sequential program that keeps running: a step that can be
\* taken is taken.
SpecNdLoop == InitIter /\ [][NextNdLoop]_vars /\ WF_vars(NextNdLoop)

\* The loop's state after last.val pre-increments.
NdLoopSteps ==
  /\ pc \in {"test", "index", "write", "inc"} =>
       /\ it.cur._arr = X
       /\ it.cur._pos = last.val
       /\ last.val <= arrs[X]._size
  /\ pc = "test" =>
       /\ last.val < arrs[X]._size => ~nd_iter_eq(it.cur, nd_end(Mem, X))
       /\ last.val = arrs[X]._size => nd_iter_eq(it.cur, nd_end(Mem, X))
  /\ pc \in {"index", "write", "inc"} => last.val < arrs[X]._size
  /\ pc \in {"write", "inc"} =>
       /\ call.flat = last.val
       /\ call.idx = one2n(arrs[X]._shape, last.val)
  /\ pc = "inc" =>
       nd_iter_deref(Mem, it.cur).slot \in DOMAIN Cells(Mem, X)
  /\ pc = "done" =>
       /\ last.val = arrs[X]._size
       /\ it.cur._pos = arrs[X]._size

\* C13: an iterator started at nd_begin() and pre-incremented k times is at
\* flat position k; it compares unequal to nd_end() while k < size() and
\* equal when k = size() (at once when size() = 0), so the positions 0, 1,
\* ..., size()-1 are visited once each in increasing order; index() returns
\* one2n of the current position and leaves the position as it was; and the
\* loop for (it = nd_begin(); it != nd_end(); ++it) terminates.
C13_LoopVisitsAllAndEnds == []NdLoopSteps /\ <>(pc = "done")

\* The loop over the {2,3} array of the test was left after six increments,
\* the last index() having returned {1,2}.
C13_Witness ==
  /\ pc = "done"
  /\ arrs[X]._shape = mk_idx(<<2, 3>>)
  /\ last.op = "LoopIncrement" /\ last.val = 6
  /\ call.idx = mk_idx(<<1, 2>>) /\ call.flat = 5
  /\ ElemRead(Mem, X, mk_idx(<<1, 2>>)) = 3

\* ===================================================== flat iterators
\* test_ndarray.cpp, TEST_CASE("Flat iterators"): iterator is T*, a pointer
\* into the array's buffer, modelled as the buffer and an offset.
\*   auto x = mat{{M, N}};       for (i = x.begin(); i != x.end(); ++i) *i = VAL;
\*   auto x = mat{{M, N}, VAL};  for (i = x.cbegin(); i != x.cend(); ++i) REQUIRE(*i == VAL);
\* for every rank up to MaxRank, every shape of up to IterMaxSize elements
\* and every VAL.  last.val is VAL; call.flat counts the positions visited
\* and call.axis is the value the last *i read.

\* _data.get() + n
ptr(M, a, n) == [buf |-> M.arrs[a]._data, off |-> n]

\* iterator begin() { return _data.get(); }
begin(M, a) == ptr(M, a, 0)

\* const_iterator begin() const
begin_const(M, a) == ptr(M, a, 0)

\* const_iterator cbegin() const
cbegin(M, a) == ptr(M, a, 0)

\* end() returning the address of the last element.
end_last(M, a) == ptr(M, a, M.arrs[a]._size - 1)

\* iterator end() { return _data.get() + _size; }
end(M, a) == ptr(M, a, M.arrs[a]._size)

\* const_iterator end() const
end_const(M, a) == end(M, a)

\* const_iterator cend() const
cend(M, a) == end(M, a)

\* ++i on a T*
ptr_inc(p) == [p EXCEPT !.off = @ + 1]

\* *i on a const T*: the value in the slot
ptr_read(M, p) == M.heap[p.buf].cells[p.off]

\* *i = v on a T*
ptr_write(M, p, v) == [M EXCEPT !.heap[p.buf].cells[p.off] = v]

\* auto x = mat{shape};
FlatConstruct ==
  /\ pc = "start"
  /\ \E shape \in IterShapes : ShapeConstructOf(X, shape)
  /\ pc' = "mutable"
  /\ UNCHANGED <<NDIMS, it, call>>

\* auto x = mat{shape, VAL};
FlatFillConstruct ==
  /\ pc = "start"
  /\ \E shape \in IterShapes : \E cells \in Uninit(accumulate(shape, 0, 1)) :
       \E val \in Values :
         /\ Commit(ndarray_fill(Mem, X, shape, cells, val))
         /\ Did("FillConstruct", X, 0, val)
  /\ pc' = "const"
  /\ UNCHANGED <<NDIMS, origin, it, call>>

\* mat::iterator i = x.begin();  with x.end(); VAL is chosen
FlatBegin ==
  /\ pc = "mutable"
  /\ it' = [cur |-> begin(Mem, X), end |-> end(Mem, X)]
  /\ \E val \in Values : Did("FlatBegin", X, 0, val)
  /\ call' = [NoCall EXCEPT !.fn = "begin", !.shape = arrs[X]._shape]
  /\ pc' = "wloop"
  /\ UNCHANGED <<NDIMS, arrs, live, heap, dfree, origin>>

\* i != x.end():  *i = VAL;  ++i
FlatWrite ==
  /\ pc = "wloop"
  /\ it.cur # it.end
  /\ Commit(ptr_write(Mem, it.cur, last.val))
  /\ it' = [it EXCEPT !.cur = ptr_inc(@)]
  /\ call' = [call EXCEPT !.fn = "write", !.flat = @ + 1]
  /\ UNCHANGED <<NDIMS, last, origin, pc>>

\* i == x.end(): the writing loop is left
FlatWriteExit ==
  /\ pc = "wloop"
  /\ it.cur = it.end
  /\ pc' = "written"
  /\ UNCHANGED <<NDIMS, arrs, live, heap, dfree, last, origin, it, call>>

\* mat::const_iterator i = x.cbegin(); with x.cend()  (or, x being const,
\* x.begin() with x.end())
FlatCBegin ==
  /\ pc = "const"
  /\ \E r \in {[cur |-> cbegin(Mem, X), end |-> cend(Mem, X)],
               [cur |-> begin_const(Mem, X), end |-> end_const(Mem, X)]} :
       it' = r
  /\ call' = [NoCall EXCEPT !.fn = "cbegin", !.shape = arrs[X]._shape]
  /\ pc' = "rloop"
  /\ UNCHANGED <<NDIMS, arrs, live, heap, dfree, last, origin>>

\* i != x.cend():  REQUIRE(*i == VAL);  ++i
FlatRead ==
  /\ pc = "rloop"
  /\ it.cur # it.end
  /\ call' = [call EXCEPT !.fn = "read", !.flat = @ + 1,
                          !.axis = ptr_read(Mem, it.cur)]
  /\ it' = [it EXCEPT !.cur = ptr_inc(@)]
  /\ UNCHANGED <<NDIMS, arrs, live, heap, dfree, last, origin, pc>>

\* i == x.cend(): the reading loop is left
FlatReadExit ==
  /\ pc = "rloop"
  /\ it.cur = it.end
  /\ pc' = "read"
  /\ UNCHANGED <<NDIMS, arrs, live, heap, dfree, last, origin, it, call>>

NextFlat ==
  \/ FlatConstruct
  \/ FlatFillConstruct
  \/ FlatBegin
  \/ FlatWrite
  \/ FlatWriteExit
  \/ FlatCBegin
  \/ FlatRead
  \/ FlatReadExit

SpecFlat == InitIter /\ [][NextFlat]_vars

\* C14: [begin(), end()), [cbegin(), cend()) and the const begin()/end() span
\* exactly size() slots of the array's buffer, and the k-th slot is the slot
\* coordinate access addresses for the coordinate one2n(k); so when a value
\* was written through every flat position, element access reads it at every
\* valid coordinate, and every const flat position of a fill-constructed
\* array reads the fill value.
C14_FlatRange ==
  /\ pc \in {"wloop", "written", "rloop", "read"} =>
       /\ it.cur.buf = arrs[X]._data /\ it.end.buf = arrs[X]._data
       /\ it.cur.off = call.flat
       /\ it.end.off - it.cur.off + call.flat = arrs[X]._size
       /\ it.cur.off \in 0..arrs[X]._size
       /\ it.cur.off < arrs[X]._size =>
            /\ it.cur.off \in DOMAIN heap[it.cur.buf].cells
            /\ ElemSlot(Mem, X, one2n(arrs[X]._shape, it.cur.off)) = it.cur.off
       /\ DOMAIN heap[arrs[X]._data].cells = 0..(arrs[X]._size - 1)
  /\ pc = "wloop" =>
       \A k \in 0..(call.flat - 1) :
         ElemRead(Mem, X, one2n(arrs[X]._shape, k)) = last.val
  /\ pc = "written" =>
       /\ call.flat = arrs[X]._size
       /\ \A c \in ValidCoords(arrs[X]._shape) : ElemRead(Mem, X, c) = last.val
  /\ (pc \in {"rloop", "read"} /\ call.fn = "read") => call.axis = last.val
  /\ pc = "read" => call.flat = arrs[X]._size

\* The value 1 was written through the six flat positions of the {2,3} array
\* of the test.
C14_Witness ==
  /\ pc = "written"
  /\ arrs[X]._shape = mk_idx(<<2, 3>>)
  /\ call.flat = 6 /\ last.val = 1
  /\ ElemRead(Mem, X, mk_idx(<<1, 2>>)) = 1

\* ===================================================== element access
\* x(i, j, ...) and x(ind) at valid coordinates of an array constructed from
\* a shape, for every rank up to MaxRank and every shape of up to IterMaxSize
\* elements.  call holds the form used, the coordinate and the slot addressed.

\* index_type built from the parameter pack in reverse order.
variadic_index_reversed(inds) ==
  [d \in 0..(Len(inds) - 1) |-> inds[Len(inds) - d]]

\* index_type{static_cast<int>(inds)...}: the k-th argument of the pack
\* becomes component k-1 (the arguments are within int, which the cast keeps)
variadic_index(inds) == [d \in 0..(Len(inds) - 1) |-> inds[d + 1]]

\* operator()(Ints... inds): the slot _data[n2one(index_type{inds...})]
operator_call_variadic(M, a, inds) ==
  n2one(M.arrs[a]._shape, variadic_index(inds))

\* operator()(const index_type& ind): the slot _data[n2one(ind)]
operator_call_index(M, a, ind) == ElemSlot(M, a, ind)

\* The parameter packs that are valid coordinates of the shape.
ValidPacks(shape) ==
  {[k \in 1..NDIMS |-> c[k - 1]] : c \in ValidCoords(shape)}

\* x(i, j, ...) = v;
AccessVariadic ==
  /\ pc = "constructed"
  /\ call.fn = "none"
  /\ \E inds \in ValidPacks(arrs[X]._shape) : \E v \in Values :
       LET k == operator_call_variadic(Mem, X, inds)
       IN /\ heap' = [heap EXCEPT ![arrs[X]._data].cells[k] = v]
          /\ call' = [fn |-> "variadic", shape |-> arrs[X]._shape, axis |-> v,
                      flat |-> k, idx |-> variadic_index(inds)]
  /\ UNCHANGED <<NDIMS, arrs, live, dfree, last, origin, it, pc>>

\* x(ind) = v;
AccessIndex ==
  /\ pc = "constructed"
  /\ call.fn = "none"
  /\ \E ind \in ValidCoords(arrs[X]._shape) : \E v \in Values :
       LET k == operator_call_index(Mem, X, ind)
       IN /\ heap' = [heap EXCEPT ![arrs[X]._data].cells[k] = v]
          /\ call' = [fn |-> "index", shape |-> arrs[X]._shape, axis |-> v,
                      flat |-> k, idx |-> ind]
  /\ UNCHANGED <<NDIMS, arrs, live, dfree, last, origin, it, pc>>

NextAccess == IterConstruct \/ AccessVariadic \/ AccessIndex

SpecAccess == InitIter /\ [][NextAccess]_vars

\* C15: for an array constructed from a shape with extents >= 0 and a valid
\* coordinate c, the slot element access addresses is n2one(c), lies in
\* [0, size()) and is a slot of the buffer the array owns; the variadic and
\* the single-coordinate form address the same slot; and no other valid
\* coordinate addresses it.
C15_AccessInBounds ==
  call.fn \in {"variadic", "index"} =>
    LET c == call.idx
        inds == [k \in 1..NDIMS |-> c[k - 1]]
    IN /\ c \in ValidCoords(arrs[X]._shape)
       /\ call.flat = n2one(arrs[X]._shape, c)
       /\ call.flat >= 0 /\ call.flat < arrs[X]._size
       /\ arrs[X]._data # NULL /\ heap[arrs[X]._data].alloc
       /\ call.flat \in DOMAIN heap[arrs[X]._data].cells
       /\ heap[arrs[X]._data].cells[call.flat] = call.axis
       /\ operator_call_variadic(Mem, X, inds) = call.flat
       /\ operator_call_index(Mem, X, c) = call.flat
       /\ \A c2 \in ValidCoords(arrs[X]._shape) :
            c2 # c => operator_call_index(Mem, X, c2) # call.flat

\* x(1, 2) of the {2,3} array was written in the variadic form: slot 5.
C15_Witness ==
  /\ call.fn = "variadic"
  /\ arrs[X]._shape = mk_idx(<<2, 3>>)
  /\ call.idx = mk_idx(<<1, 2>>) /\ call.flat = 5
  /\ ElemRead(Mem, X, mk_idx(<<1, 2>>)) = call.axis

====
